---- MODULE Spec2Model ----
(***************************************************************************)
(* Model of scripts/generate_summaries.py: the input loader, the           *)
(* checkpoint store, the summarizer and the batch driver, with the files   *)
(* the script reads and writes and the interruptions a run can suffer.     *)
(*                                                                         *)
(* A Python str is a sequence of one-character strings.  A JSON / Python   *)
(* value is a record [t, v]: t is its type tag and v its content as a      *)
(* sequence (the characters of a str, the items of a list, the keys of a   *)
(* dict; empty for null).  A dict with the keys "summary" and "flag" is a  *)
(* record [summary, flag] of such values, a key the dict lacks being the   *)
(* value Missing.                                                          *)
(***************************************************************************)
EXTENDS Integers, Sequences, FiniteSets, TLC

MAX_SUMMARY_LENGTH == 40

BATCH_SIZE == 50

\* ------------------------------------------------------------ model bounds
\* Runs of the script in one behaviour.
MaxRuns == 3

\* Short requirement texts of the large input, ahead of its two long texts.
NumFiller == 50

\* Calendar days the clock can advance over a behaviour.
MaxDay == 1

\* ------------------------------------------------------------ str helpers
Alphabet == <<"a", "b", "c", "d", "e">>

\* A text of n characters whose i-th character depends on i and on seed.
Str(seed, n) == [i \in 1..n |-> Alphabet[((seed + i) % 5) + 1]]

\* s[:n]
Take(s, n) == SubSeq(s, 1, IF Len(s) < n THEN Len(s) ELSE n)

\* s.startswith(p)
StartsWith(s, p) == Len(s) >= Len(p) /\ SubSeq(s, 1, Len(p)) = p

IsSpace(c) == c \in {" ", "\n", "\t"}

RECURSIVE LStrip(_)
LStrip(s) == IF s # <<>> /\ IsSpace(Head(s)) THEN LStrip(Tail(s)) ELSE s

RECURSIVE RStrip(_)
RStrip(s) ==
    IF s # <<>> /\ IsSpace(s[Len(s)]) THEN RStrip(SubSeq(s, 1, Len(s) - 1)) ELSE s

\* s.strip()
Strip(s) == RStrip(LStrip(s))

\* The one character U+2026 (HORIZONTAL ELLIPSIS), written in ASCII.
Ellipsis == "U+2026"

NotePlain == <<"N", "O", "T", "E", ":">>

NoteHtml == <<"<", "b", ">", "N", "O", "T", "E", ":", "<", "/", "b", ">">>

AutoTruncated ==
    <<"a", "u", "t", "o", "-", "t", "r", "u", "n", "c", "a", "t", "e", "d">>

ApiErrorPrefix == <<"A", "P", "I", " ", "e", "r", "r", "o", "r", ":", " ">>

\* ------------------------------------------------------------ JSON values
JStr(s) == [t |-> "str", v |-> s]

JNull == [t |-> "null", v |-> <<>>]

JList(items) == [t |-> "list", v |-> items]

JDict(keys) == [t |-> "dict", v |-> keys]

\* A key the dict does not have.
Missing == [t |-> "missing", v |-> <<>>]

\* len(x) is defined for str, list and dict and raises TypeError otherwise.
HasLen(x) == x.t \in {"str", "list", "dict"}

\* Python truthiness of d.get(key): None (also a missing key) and empty
\* containers are false.
Truthy(x) == x.t \notin {"missing", "null"} /\ x.v # <<>>

\* ------------------------------------------------------------ input file
\* raw_requirements.json: a list of badges [name, versions], a version being
\* [requirements], a requirement [number, text].
Req(number, text) == [number |-> number, text |-> text]

Version(reqs) == [requirements |-> reqs]

Badge(name, versions) == [name |-> name, versions |-> versions]

\* 41 characters: the shortest text that is summarized by the service.
T41 == Str(0, 41)

\* 40 characters: the longest text that is its own summary.
T40 == Str(2, 40)

\* More than 100 characters.
T101 == Str(1, 101)

NoteText == NotePlain \o <<" ">> \o Str(0, 3)

HtmlNoteText == NoteHtml \o <<" ">> \o Str(1, 3)

\* "NOTE:" inside a text, not at its start.
MidNoteText == Str(3, 2) \o <<" ">> \o NotePlain

\* The i-th short text of the large input: the digits of i in base 5.
Filler(i) ==
    <<Alphabet[(i % 5) + 1], Alphabet[((i \div 5) % 5) + 1],
      Alphabet[((i \div 25) % 5) + 1]>>

\* An input of short texts only.
SmallInput ==
    << Badge("Camping",
             << Version(<< Req("1", <<" ">> \o T40 \o <<"\n">>),
                           Req("2", MidNoteText),
                           Req("3", NoteText),
                           Req("4", <<" ", " ">>) >>),
                Version(<< Req("1", T40) >>) >>),
       Badge("Hiking",
             << Version(<< Req("5", T40),
                           Req("6", HtmlNoteText),
                           Req("6b", <<"\t">> \o NoteText),
                           Req("9", Str(4, 1)) >>) >>) >>

\* An input of more than BATCH_SIZE texts, the long ones last, one of them in
\* two badges.
LargeInput ==
    << Badge("Cooking",
             << Version([i \in 1..NumFiller |-> Req("f", Filler(i))]),
                Version(<< Req("10", <<" ">> \o T41 \o <<"\n">>),
                           Req("10n", NoteText) >>) >>),
       Badge("Hiking",
             << Version(<< Req("5", T41),
                           Req("7", T101),
                           Req("8", T41 \o <<" ">>) >>) >>) >>

\* The contents raw_requirements.json can have.
Inputs == <<SmallInput, LargeInput>>

\* The requirements of data in the order of the three nested loops, each
\* with the name of its badge.
FlattenReqs(reqs, name) ==
    [i \in 1..Len(reqs) |->
        [badge |-> name, number |-> reqs[i].number, text |-> reqs[i].text]]

RECURSIVE FlattenVersions(_, _)
FlattenVersions(versions, name) ==
    IF versions = <<>> THEN <<>>
    ELSE FlattenReqs(Head(versions).requirements, name)
         \o FlattenVersions(Tail(versions), name)

RECURSIVE FlattenBadges(_)
FlattenBadges(data) ==
    IF data = <<>> THEN <<>>
    ELSE FlattenVersions(Head(data).versions, Head(data).name)
         \o FlattenBadges(Tail(data))

\* The keys of an insertion-ordered dict held as a sequence of entries.
Keys(entries) == {entries[i].text : i \in 1..Len(entries)}

IsNote(text) == StartsWith(text, NoteHtml) \/ StartsWith(text, NotePlain)

\* The loop body without the test `text not in unique_texts`: a later
\* occurrence overwrites the badge and number of the entry.
AddUnique_LastWins(unique_texts, r) ==
    LET text == Strip(r.text)
    IN  IF text # <<>>
        THEN IF IsNote(text)
             THEN unique_texts
             ELSE IF text \in Keys(unique_texts)
                  THEN [i \in 1..Len(unique_texts) |->
                           IF unique_texts[i].text = text
                           THEN [text |-> text, badge |-> r.badge, number |-> r.number]
                           ELSE unique_texts[i]]
                  ELSE Append(unique_texts,
                              [text |-> text, badge |-> r.badge, number |-> r.number])
        ELSE unique_texts

\* The loop body with the NOTE test of line 47 on the text before strip().
AddUnique_NoteUntrimmed(unique_texts, r) ==
    LET text == Strip(r.text)
    IN  IF text # <<>> /\ text \notin Keys(unique_texts)
        THEN IF IsNote(r.text)
             THEN unique_texts
             ELSE Append(unique_texts,
                         [text |-> text, badge |-> r.badge, number |-> r.number])
        ELSE unique_texts

\* The body of the innermost loop of load_requirements.
AddUnique(unique_texts, r) ==
    LET text == Strip(r.text)
    IN  IF text # <<>> /\ text \notin Keys(unique_texts)
        THEN IF IsNote(text)
             THEN unique_texts
             ELSE Append(unique_texts,
                         [text |-> text, badge |-> r.badge, number |-> r.number])
        ELSE unique_texts

\* The loops of load_requirements from the i-th requirement on.
RECURSIVE LoadFrom(_, _, _)
LoadFrom(reqs, i, unique_texts) ==
    IF i > Len(reqs) THEN unique_texts
    ELSE LET next == AddUnique(unique_texts, reqs[i])
         IN  IF Len(next) >= 0 THEN LoadFrom(reqs, i + 1, next) ELSE next

\* load_requirements(): the dict unique_texts in insertion order.
load_requirements(data) == LoadFrom(FlattenBadges(data), 1, <<>>)

\* ------------------------------------------------------------ the service
\* The text of a reply is a sequence of tokens [k, j]: a code fence ```, the
\* word json, another language word, whitespace, prose that is no JSON, or a
\* complete JSON document with the value j it parses to.
Tok(k) == [k |-> k, j |-> JNull]

Doc(j) == [k |-> "doc", j |-> j]

\* A JSON object, by its "summary" and "flag" members (others are ignored).
Obj(summary, flag) == [summary |-> summary, flag |-> flag]

IsObj(j) == "summary" \in DOMAIN j

\* str(e) of an exception: its wording is not modelled, its length is.
ErrText(n) == [i \in 1..n |-> "?"]

\* The text of an exception the service call raises: longer than the 50
\* characters the flag keeps.
ApiErrText == ErrText(60)

\* The text of an exception raised while the reply is parsed and validated
\* (JSONDecodeError, AttributeError, TypeError): one text for all of them.
ParseErrText == ErrText(41)

\* client.messages.create raises.
Raise(msg) == [kind |-> "raise", msg |-> msg, text |-> <<>>]

\* No call is made.
NoReply == [kind |-> "none", msg |-> <<>>, text |-> <<>>]

Respond(text) == [kind |-> "text", msg |-> <<>>, text |-> text]

\* Summaries the service writes: 40 and 41 characters.
S40 == Str(3, 40)

S41 == Str(4, 41)

LostNote == <<"l", "o", "s", "t">>

\* The service call raises (timeout, quota, network).
ReplyRaise == Raise(ApiErrText)

\* Prose, no JSON.
ReplyProse == Respond(<<Tok("prose")>>)

\* JSON that is no object.
ReplyNotObject == Respond(<<Doc(JList(<<"x">>))>>)

\* An object without "summary".
ReplyNoSummary == Respond(<<Doc(Obj(Missing, JNull))>>)

\* "summary": null
ReplyNullSummary == Respond(<<Doc(Obj(JNull, JNull))>>)

\* "summary": a list of two items.
ReplyListSummary == Respond(<<Doc(Obj(JList(<<"x", "y">>), JNull))>>)

\* "summary": a list of 41 items.
ReplyLongList == Respond(<<Doc(Obj(JList(Str(0, 41)), JNull))>>)

\* "summary": an object.
ReplyDictSummary == Respond(<<Doc(Obj(JDict(<<"k">>), JNull))>>)

ReplyShort == Respond(<<Doc(Obj(JStr(S40), JNull))>>)

ReplyShortNote == Respond(<<Doc(Obj(JStr(S40), JStr(LostNote)))>>)

\* "flag": ""
ReplyShortEmptyFlag == Respond(<<Doc(Obj(JStr(S40), JStr(<<>>)))>>)

ReplyLongNoFlag == Respond(<<Doc(Obj(JStr(S41), Missing))>>)

ReplyLongNullFlag == Respond(<<Doc(Obj(JStr(S41), JNull))>>)

ReplyLongEmptyFlag == Respond(<<Doc(Obj(JStr(S41), JStr(<<>>)))>>)

ReplyLongNote ==
    Respond(<<Tok("ws"), Doc(Obj(JStr(S41), JStr(LostNote))), Tok("ws")>>)

\* ```json ... ```
ReplyFencedJson ==
    Respond(<<Tok("fence"), Tok("json"), Tok("ws"),
              Doc(Obj(JStr(S40), JNull)), Tok("ws"), Tok("fence")>>)

\* ``` ... ```
ReplyFencedBare ==
    Respond(<<Tok("fence"), Tok("ws"),
              Doc(Obj(JStr(S41), JStr(LostNote))), Tok("ws"), Tok("fence")>>)

\* A fence with another language word.
ReplyFencedOther ==
    Respond(<<Tok("fence"), Tok("other"), Tok("ws"),
              Doc(Obj(JStr(S40), JNull)), Tok("ws"), Tok("fence")>>)

\* Prose ahead of the fence.
ReplyProseFence ==
    Respond(<<Tok("prose"), Tok("ws"), Tok("fence"), Tok("json"), Tok("ws"),
              Doc(Obj(JStr(S40), JNull)), Tok("ws"), Tok("fence")>>)

\* The outcomes of one service call.
Replies ==
    << ReplyRaise, ReplyProse, ReplyNotObject, ReplyNoSummary, ReplyNullSummary,
       ReplyListSummary, ReplyLongList, ReplyDictSummary, ReplyShort,
       ReplyShortNote, ReplyShortEmptyFlag, ReplyLongNoFlag, ReplyLongNullFlag,
       ReplyLongEmptyFlag, ReplyLongNote, ReplyFencedJson, ReplyFencedBare,
       ReplyFencedOther, ReplyProseFence >>

\* ------------------------------------------------------------ the summarizer
RECURSIVE LStripTok(_)
LStripTok(s) == IF s # <<>> /\ Head(s).k = "ws" THEN LStripTok(Tail(s)) ELSE s

RECURSIVE RStripTok(_)
RStripTok(s) ==
    IF s # <<>> /\ s[Len(s)].k = "ws" THEN RStripTok(SubSeq(s, 1, Len(s) - 1)) ELSE s

\* The tokens of s up to its first fence.
RECURSIVE UpToFence(_)
UpToFence(s) ==
    IF s = <<>> \/ Head(s).k = "fence" THEN <<>>
    ELSE <<Head(s)>> \o UpToFence(Tail(s))

\* Lines 104-107: result_text with a leading code fence and "json" removed.
StripFence(result_text) ==
    IF result_text # <<>> /\ Head(result_text).k = "fence"
    THEN LET inner == UpToFence(Tail(result_text))
         IN  IF inner # <<>> /\ Head(inner).k = "json" THEN Tail(inner) ELSE inner
    ELSE result_text

\* json.loads: whitespace around one JSON document, or JSONDecodeError.
json_loads(s) ==
    LET body == SelectSeq(s, LAMBDA x : x.k # "ws")
    IN  IF Len(body) = 1 /\ body[1].k = "doc"
        THEN [ok |-> TRUE, value |-> body[1].j]
        ELSE [ok |-> FALSE, value |-> JNull]

\* Fallback cutting at MAX_SUMMARY_LENGTH, not one short of it.
Fallback_CutAt40(text, e) ==
    Obj(JStr(Take(text, MAX_SUMMARY_LENGTH) \o <<Ellipsis>>),
        JStr(ApiErrorPrefix \o Take(e, 50)))

\* Lines 122-128: the record of the except branch for the exception text e.
Fallback(text, e) ==
    Obj(JStr(Take(text, MAX_SUMMARY_LENGTH - 1) \o <<Ellipsis>>),
        JStr(ApiErrorPrefix \o Take(e, 50)))

\* Validate truncating without the check of line 117: always "auto-truncated".
Validate_AlwaysAutoFlag(text, result) ==
    IF ~IsObj(result)
    THEN Fallback(text, ParseErrText)
    ELSE LET summary == IF result.summary.t = "missing" THEN JStr(<<>>)
                        ELSE result.summary
         IN  IF ~HasLen(summary)
             THEN Fallback(text, ParseErrText)
             ELSE IF Len(summary.v) > MAX_SUMMARY_LENGTH
                  THEN IF summary.t = "str"
                       THEN Obj(JStr(Take(summary.v, MAX_SUMMARY_LENGTH - 1)
                                     \o <<Ellipsis>>),
                                JStr(AutoTruncated))
                       ELSE Fallback(text, ParseErrText)
                  ELSE result

\* Lines 111-120, for the parsed reply result.
Validate(text, result) ==
    IF ~IsObj(result)
    THEN Fallback(text, ParseErrText)
    ELSE LET summary == IF result.summary.t = "missing" THEN JStr(<<>>)
                        ELSE result.summary
         IN  IF ~HasLen(summary)
             THEN Fallback(text, ParseErrText)
             ELSE IF Len(summary.v) > MAX_SUMMARY_LENGTH
                  THEN IF summary.t = "str"
                       THEN Obj(JStr(Take(summary.v, MAX_SUMMARY_LENGTH - 1)
                                     \o <<Ellipsis>>),
                                IF ~Truthy(result.flag) THEN JStr(AutoTruncated)
                                ELSE result.flag)
                       ELSE Fallback(text, ParseErrText)
                  ELSE result

\* Lines 93-128: the try block for one outcome of the service call.
CallService(text, reply) ==
    IF reply.kind = "raise" THEN Fallback(text, reply.msg)
    ELSE LET parsed == json_loads(StripFence(RStripTok(LStripTok(reply.text))))
         IN  IF parsed.ok THEN Validate(text, parsed.value)
             ELSE Fallback(text, ParseErrText)

\* NeedsService with the comparison of line 73 as < instead of <=.
NeedsService_From40(text) == Len(text) >= MAX_SUMMARY_LENGTH

\* Whether generate_summary calls the service for text.
NeedsService(text) == Len(text) > MAX_SUMMARY_LENGTH

\* generate_summary(client, text, badge_name, req_number).
generate_summary(text, reply) ==
    IF ~NeedsService(text) THEN Obj(JStr(text), JNull)
    ELSE CallService(text, reply)

\* ------------------------------------------------------------ state
VARIABLES
    raw,           \* raw_requirements.json: the index in Inputs of its contents
    ckptFile,      \* summaries_checkpoint.json
    outFile,       \* requirement_summaries.json
    today,         \* the current date, in days
    runs,          \* runs of the script started so far
    pc,            \* where the current run is
    apiKey,        \* whether ANTHROPIC_API_KEY is set for the current run
    unique_texts,  \* main's unique_texts, in insertion order
    summaries,     \* main's summaries
    to_process,    \* main's to_process, in insertion order
    processed,     \* main's processed
    flagged,       \* main's flagged
    output,        \* main's output
    gs_calls,      \* history: the texts generate_summary was called with, this run
    svc_calls,     \* history: the texts the service was called with, this run
    saves,         \* history: save_checkpoint calls of this run
    startCkpt,     \* history: the checkpoint this run loaded
    lastCall,      \* history: the latest generate_summary call and its result
    outBy          \* history: the run that wrote the output file: its number and
                   \* input, whether it had nothing to process, and whether
                   \* the run before it, on the same input, had nothing either

vars ==
    <<raw, ckptFile, outFile, today, runs, pc, apiKey, unique_texts, summaries,
      to_process, processed, flagged, output, gs_calls, svc_calls, saves,
      startCkpt, lastCall, outBy>>

procVars == <<unique_texts, summaries, to_process, processed, flagged, output>>

histVars == <<gs_calls, svc_calls, saves, startCkpt, lastCall>>

\* The empty dict.
EmptyMap == [k \in {} |-> JNull]

\* A file is absent, complete ("ok", with its contents) or "torn": opened for
\* writing, so truncated, and not yet completely written.
NoCkpt == [st |-> "absent", data |-> EmptyMap]

TornCkpt == [st |-> "torn", data |-> EmptyMap]

NoDoc == [version |-> "", generated |-> 0, summaries |-> EmptyMap, flags |-> EmptyMap]

NoOut == [st |-> "absent", doc |-> NoDoc]

TornOut == [st |-> "torn", doc |-> NoDoc]

NoCall == [text |-> <<>>, reply |-> 0, result |-> Obj(Missing, Missing)]

NoRun == [run |-> 0, raw |-> 0, nothingNew |-> FALSE, again |-> FALSE]

\* A run is between its start and its exit.
Running ==
    {"main", "load", "loop", "psave", "pdump", "fsave", "fdump", "output", "owrite"}

\* No run is in progress: none yet, exit 0, exit 1 on the missing credential,
\* an uncaught exception, or the process was interrupted.
Stopped == {"idle", "done", "exit1", "aborted", "killed"}

Init ==
    /\ raw = 1
    /\ ckptFile = NoCkpt
    /\ outFile = NoOut
    /\ today = 0
    /\ runs = 0
    /\ pc = "idle"
    /\ apiKey = FALSE
    /\ unique_texts = <<>>
    /\ summaries = EmptyMap
    /\ to_process = <<>>
    /\ processed = 0
    /\ flagged = <<>>
    /\ output = NoDoc
    /\ gs_calls = <<>>
    /\ svc_calls = <<>>
    /\ saves = 0
    /\ startCkpt = NoCkpt
    /\ lastCall = NoCall
    /\ outBy = NoRun

\* The memory of the process is gone.
ForgetProc ==
    /\ unique_texts' = <<>>
    /\ summaries' = EmptyMap
    /\ to_process' = <<>>
    /\ processed' = 0
    /\ flagged' = <<>>
    /\ output' = NoDoc

\* ------------------------------------------------------------ the run
\* The script is started, with some input file and with or without the
\* credential in its environment.
StartRun ==
    /\ pc \in Stopped
    /\ runs < MaxRuns
    /\ runs' = runs + 1
    /\ \E d \in 1..Len(Inputs) : raw' = d
    /\ \E key \in BOOLEAN : apiKey' = key
    /\ pc' = "main"
    /\ ForgetProc
    /\ gs_calls' = <<>>
    /\ svc_calls' = <<>>
    /\ saves' = 0
    /\ startCkpt' = NoCkpt
    /\ lastCall' = NoCall
    /\ UNCHANGED <<ckptFile, outFile, today, outBy>>

\* Lines 131-136 without the exit: the run goes on without the credential.
CheckKey_NoExit ==
    /\ pc = "main"
    /\ pc' = "load"
    /\ UNCHANGED <<raw, ckptFile, outFile, today, runs, apiKey, procVars,
                   histVars, outBy>>

\* Lines 131-136.
CheckKey ==
    /\ pc = "main"
    /\ pc' = IF apiKey THEN "load" ELSE "exit1"
    /\ UNCHANGED <<raw, ckptFile, outFile, today, runs, apiKey, procVars,
                   histVars, outBy>>

\* load_checkpoint ignoring the file.
load_checkpoint_Empty(file) == EmptyMap

\* load_checkpoint(): the dict of the file, {} without a file.
load_checkpoint(file) == file.data

\* Line 147 without its filter.
Unprocessed_All(texts, done) == texts

\* Line 147.
Unprocessed(texts, done) == SelectSeq(texts, LAMBDA e : e.text \notin DOMAIN done)

\* Lines 138-152.  json.load raises on a torn checkpoint file.
Load ==
    /\ pc = "load"
    /\ IF ckptFile.st = "torn"
       THEN /\ pc' = "aborted"
            /\ ForgetProc
            /\ UNCHANGED startCkpt
       ELSE LET texts == load_requirements(Inputs[raw])
                loaded == load_checkpoint(ckptFile)
                todo == Unprocessed(texts, loaded)
            IN  /\ unique_texts' = texts
                /\ summaries' = loaded
                /\ to_process' = todo
                /\ pc' = IF todo = <<>> THEN "output" ELSE "loop"
                /\ startCkpt' = ckptFile
                /\ UNCHANGED <<processed, flagged, output>>
    /\ UNCHANGED <<raw, ckptFile, outFile, today, runs, apiKey, gs_calls,
                   svc_calls, saves, lastCall, outBy>>

\* d = {key: value} in the place of d[key] = value.
Put_Fresh(d, key, value) == [k \in {key} |-> value]

\* d[key] = value
Put(d, key, value) ==
    [k \in DOMAIN d \cup {key} |-> IF k = key THEN value ELSE d[k]]

\* Line 167: result['summary'][:50] raises KeyError without the key and
\* TypeError when the value cannot be sliced.
PrintFails(result) == result.summary.t \notin {"str", "list"}

\* Lines 170-176 with the requirement text in the place of the summary.
FlagEntry_TextAsSummary(item, result) ==
    [badge |-> item.badge,
     number |-> item.number,
     original |-> IF Len(item.text) > 100
                  THEN Take(item.text, 100) \o <<".", ".", ".">>
                  ELSE item.text,
     summary |-> JStr(item.text),
     flag |-> result.flag]

\* Lines 170-176.
FlagEntry(item, result) ==
    [badge |-> item.badge,
     number |-> item.number,
     original |-> IF Len(item.text) > 100
                  THEN Take(item.text, 100) \o <<".", ".", ".">>
                  ELSE item.text,
     summary |-> result.summary,
     flag |-> result.flag]

\* AfterItem without the final save of line 187.
AfterItem_NoFinalSave(n, total) ==
    IF n % BATCH_SIZE = 0 THEN "psave"
    ELSE IF n = total THEN "output" ELSE "loop"

\* Where the loop goes after an item: the periodic save of line 179, the final
\* save after the last item, or the next item.
AfterItem(n, total) ==
    IF n % BATCH_SIZE = 0 THEN "psave"
    ELSE IF n = total THEN "fsave" ELSE "loop"

\* Lines 157-184: one iteration of the batch loop, up to the periodic save.
ProcessItem ==
    /\ pc = "loop"
    /\ LET item == to_process[processed + 1]
       IN  \E r \in IF NeedsService(item.text) THEN 1..Len(Replies) ELSE {0} :
             LET result == generate_summary(item.text, IF r = 0 THEN NoReply ELSE Replies[r])
             IN  /\ gs_calls' = Append(gs_calls, item.text)
                 /\ svc_calls' = IF r = 0 THEN svc_calls ELSE Append(svc_calls, item.text)
                 /\ lastCall' = [text |-> item.text, reply |-> r, result |-> result]
                 /\ IF PrintFails(result)
                    THEN /\ pc' = "aborted"
                         /\ ForgetProc
                    ELSE /\ processed' = processed + 1
                         /\ summaries' = Put(summaries, item.text, result)
                         /\ flagged' = IF Truthy(result.flag)
                                       THEN Append(flagged, FlagEntry(item, result))
                                       ELSE flagged
                         /\ pc' = AfterItem(processed + 1, Len(to_process))
                         /\ UNCHANGED <<unique_texts, to_process, output>>
    /\ UNCHANGED <<raw, ckptFile, outFile, today, runs, apiKey, saves, startCkpt, outBy>>

\* Line 66 of save_checkpoint: open(CHECKPOINT_FILE, "w") truncates the file.
SaveOpen ==
    /\ pc \in {"psave", "fsave"}
    /\ ckptFile' = TornCkpt
    /\ saves' = saves + 1
    /\ pc' = IF pc = "psave" THEN "pdump" ELSE "fdump"
    /\ UNCHANGED <<raw, outFile, today, runs, apiKey, procVars, gs_calls,
                   svc_calls, startCkpt, lastCall, outBy>>

\* What a completed save_checkpoint(d) leaves in the file.
save_checkpoint(d) == [st |-> "ok", data |-> d]

\* Line 67 of save_checkpoint: json.dump and the close of the file.  After the
\* periodic save the loop goes on; after the final save comes the output.
SaveDump ==
    /\ pc \in {"pdump", "fdump"}
    /\ ckptFile' = save_checkpoint(summaries)
    /\ pc' = IF pc = "fdump" THEN "output"
             ELSE IF processed = Len(to_process) THEN "fsave" ELSE "loop"
    /\ UNCHANGED <<raw, outFile, today, runs, apiKey, procVars, histVars, outBy>>

\* Lines 205-210 with "is not None" for the truth test of line 209.
BuildOutput_NonNullFlags(d, day) ==
    [version |-> "1.0",
     generated |-> day,
     summaries |-> [k \in DOMAIN d |-> d[k].summary],
     flags |-> [k \in {x \in DOMAIN d : d[x].flag.t \notin {"missing", "null"}} |->
                   d[k].flag]]

\* Lines 205-210: the output dict for the date day.
BuildOutput(d, day) ==
    [version |-> "1.0",
     generated |-> day,
     summaries |-> [k \in DOMAIN d |-> d[k].summary],
     flags |-> [k \in {x \in DOMAIN d : Truthy(d[x].flag)} |-> d[k].flag]]

\* Lines 200-212: the output is built and the output file opened for writing.
\* v["summary"] raises KeyError for a record without the key.
OutputOpen ==
    /\ pc = "output"
    /\ \E day \in today..MaxDay :
         /\ today' = day
         /\ IF \E k \in DOMAIN summaries : summaries[k].summary.t = "missing"
            THEN /\ pc' = "aborted"
                 /\ ForgetProc
                 /\ UNCHANGED outFile
            ELSE /\ output' = BuildOutput(summaries, day)
                 /\ outFile' = TornOut
                 /\ pc' = "owrite"
                 /\ UNCHANGED <<unique_texts, summaries, to_process, processed,
                                flagged>>
    /\ UNCHANGED <<raw, ckptFile, runs, apiKey, histVars, outBy>>

\* Lines 213-217: json.dump, the close of the file and "Done!".
OutputDump ==
    /\ pc = "owrite"
    /\ outFile' = [st |-> "ok", doc |-> output]
    /\ outBy' = [run |-> runs, raw |-> raw, nothingNew |-> to_process = <<>>,
                 again |-> /\ to_process = <<>>
                           /\ outBy.nothingNew
                           /\ outBy.run = runs - 1
                           /\ outBy.raw = raw]
    /\ pc' = "done"
    /\ UNCHANGED <<raw, ckptFile, today, runs, apiKey, procVars, histVars>>

\* The process is interrupted (killed, power loss): its memory is gone, the
\* files stay as they are.
Interrupt ==
    /\ pc \in Running
    /\ pc' = "killed"
    /\ ForgetProc
    /\ gs_calls' = <<>>
    /\ svc_calls' = <<>>
    /\ saves' = 0
    /\ lastCall' = NoCall
    /\ startCkpt' = NoCkpt
    /\ UNCHANGED <<raw, ckptFile, outFile, today, runs, apiKey, outBy>>

Next ==
    \/ StartRun
    \/ CheckKey
    \/ Load
    \/ ProcessItem
    \/ SaveOpen
    \/ SaveDump
    \/ OutputOpen
    \/ OutputDump
    \/ Interrupt

Spec == Init /\ [][Next]_vars

\* ------------------------------------------------------------ claims
\* The elements of a sequence.
Range(s) == {s[i] : i \in 1..Len(s)}

\* generate_summary has been called in this run and lastCall describes it.
Called == lastCall.text # <<>>

\* The reply of the latest service call.
LastReply == Replies[lastCall.reply]

\* The service call failed, or its reply holds something that is no JSON.
FailedOrUnparsable(reply) ==
    \/ reply.kind = "raise"
    \/ /\ reply.kind = "text"
       /\ \E i \in 1..Len(reply.text) : reply.text[i].k \in {"prose", "other"}

\* The reply is one JSON document, an object whose "summary" is a string of
\* more than 40 characters.
IsLongSummaryJson(reply) ==
    /\ reply.kind = "text"
    /\ \A i \in 1..Len(reply.text) : reply.text[i].k \in {"ws", "doc"}
    /\ Cardinality({i \in 1..Len(reply.text) : reply.text[i].k = "doc"}) = 1
    /\ \E i \in 1..Len(reply.text) :
         /\ reply.text[i].k = "doc"
         /\ IsObj(reply.text[i].j)
         /\ reply.text[i].j.summary.t = "str"
         /\ Len(reply.text[i].j.summary.v) > 40

\* The JSON document of such a reply.
ReplyJson(reply) ==
    reply.text[CHOOSE i \in 1..Len(reply.text) : reply.text[i].k = "doc"].j

\* C7: for a text of at most 40 characters generate_summary returns the
\* record {summary: the text unchanged, flag: null} and calls no service.
C7_ShortTextUnchanged ==
    (Called /\ Len(lastCall.text) <= 40) =>
        /\ lastCall.result = Obj(JStr(lastCall.text), JNull)
        /\ lastCall.reply = 0
        /\ lastCall.text \notin Range(svc_calls)

\* C7 witness: generate_summary has returned for the text of exactly 40
\* characters.
C7_Witness == Called /\ lastCall.text = T40 /\ pc = "loop"

\* C8: for a text of more than 40 characters, when the service call fails or
\* its reply cannot be parsed, generate_summary returns the first 39
\* characters of the text plus one ellipsis (40 in all) with a non-null flag,
\* and the run goes on (no error reaches the caller).
C8_FailureFallsBack ==
    (Called /\ lastCall.reply # 0 /\ FailedOrUnparsable(LastReply)) =>
        /\ Len(lastCall.text) > 40
        /\ lastCall.result.summary.t = "str"
        /\ lastCall.result.summary.v = SubSeq(lastCall.text, 1, 39) \o <<Ellipsis>>
        /\ Len(lastCall.result.summary.v) = 40
        /\ lastCall.result.flag.t \notin {"null", "missing"}
        /\ pc # "aborted"

\* C8 witness: the service call for the 101-character text raised and the
\* loop has its result.
C8_Witness ==
    /\ Called
    /\ lastCall.text = T101
    /\ lastCall.reply # 0
    /\ LastReply = ReplyRaise
    /\ T101 \in DOMAIN summaries

\* The flag of a service reply counts as supplied when the key is there and
\* its value is not null.
Supplied(flag) == flag.t \notin {"missing", "null"}

\* C9 as stated: for a JSON reply with a summary of more than 40 characters
\* the stored summary is its first 39 characters plus one ellipsis, and the
\* stored flag is the flag the service supplied if it supplied one, otherwise
\* "auto-truncated".
C9_Original ==
    (Called /\ lastCall.reply # 0 /\ IsLongSummaryJson(LastReply)) =>
        LET j == ReplyJson(LastReply)
        IN  /\ lastCall.result.summary = JStr(SubSeq(j.summary.v, 1, 39) \o <<Ellipsis>>)
            /\ lastCall.result.flag.t \notin {"null", "missing"}
            /\ lastCall.result.flag =
                   IF Supplied(j.flag) THEN j.flag ELSE JStr(AutoTruncated)

\* C9 amended: the stored flag is the flag the service supplied if that flag
\* is non-empty (true in Python's sense), otherwise "auto-truncated"; the
\* stored summary has exactly 40 characters, the last one the ellipsis.
C9_LongSummaryTruncated ==
    (Called /\ lastCall.reply # 0 /\ IsLongSummaryJson(LastReply)) =>
        LET j == ReplyJson(LastReply)
        IN  /\ lastCall.result.summary = JStr(SubSeq(j.summary.v, 1, 39) \o <<Ellipsis>>)
            /\ Len(lastCall.result.summary.v) = 40
            /\ lastCall.result.flag.t \notin {"null", "missing"}
            /\ lastCall.result.flag =
                   IF Supplied(j.flag) /\ j.flag.v # <<>> THEN j.flag
                   ELSE JStr(AutoTruncated)

\* C9 witness: the service supplied a flag with its over-long summary and the
\* record is stored.
C9_Witness ==
    /\ Called
    /\ lastCall.reply # 0
    /\ LastReply = ReplyLongNote
    /\ lastCall.text \in DOMAIN summaries
    /\ summaries[lastCall.text].flag = JStr(LostNote)

\* C1: every key of the summaries mapping of the output file maps to a
\* string of at most 40 characters.
C1_OutputSummariesShortStrings ==
    outFile.st = "ok" =>
        \A k \in DOMAIN outFile.doc.summaries :
            /\ outFile.doc.summaries[k].t = "str"
            /\ Len(outFile.doc.summaries[k].v) <= 40

\* C2: once the batch loop has started no outcome of an item halts the run:
\* a run ends in an uncaught exception only before its first item.
C2_NoItemHaltsBatch == pc = "aborted" => gs_calls = <<>>

\* new holds every record of old, unchanged.
Grows(old, new) ==
    /\ new.st = "ok"
    /\ \A k \in DOMAIN old.data : k \in DOMAIN new.data /\ new.data[k] = old.data[k]

\* C3: a run that starts from a saved checkpoint calls generate_summary only
\* for texts that are no keys of it; every record of it is, unchanged, in each
\* checkpoint the run saves and, when the run is done, in the checkpoint file
\* and (its summary, and its flag when it has one) in the output file.
C3_ResumeKeepsSaved ==
    /\ \A t \in Range(gs_calls) : t \notin DOMAIN startCkpt.data
    /\ (startCkpt.st = "ok" /\ ckptFile.st = "ok") => Grows(startCkpt, ckptFile)
    /\ (startCkpt.st = "ok" /\ pc = "done") =>
          /\ Grows(startCkpt, ckptFile)
          /\ outFile.st = "ok"
          /\ \A k \in DOMAIN startCkpt.data :
                /\ k \in DOMAIN outFile.doc.summaries
                /\ outFile.doc.summaries[k] = startCkpt.data[k].summary
                /\ Truthy(startCkpt.data[k].flag) =>
                      /\ k \in DOMAIN outFile.doc.flags
                      /\ outFile.doc.flags[k] = startCkpt.data[k].flag

\* C3 witness: a run on the large input is done that started from the
\* checkpoint an earlier run left when it stopped between its periodic save
\* and its final save: the short texts saved, the two long ones not.
C3_Witness ==
    /\ pc = "done"
    /\ raw = 2
    /\ DOMAIN startCkpt.data = {Filler(i) : i \in 1..NumFiller}
    /\ gs_calls = <<T41, T101>>

\* The results of this run that the checkpoint file does not hold.
Unsaved ==
    {k \in DOMAIN summaries \ DOMAIN startCkpt.data :
        ckptFile.st # "ok" \/ k \notin DOMAIN ckptFile.data}

\* C4: at every point of a run at most BATCH_SIZE results of the run are
\* missing from the checkpoint file.
C4_AtMostOneBatchUnsaved == Cardinality(Unsaved) <= BATCH_SIZE

\* The checkpoint loaded by this run has every text of the input.
CheckpointComplete ==
    /\ pc \in {"loop", "psave", "pdump", "fsave", "fdump", "output", "owrite", "done"}
    /\ Keys(unique_texts) \subseteq DOMAIN startCkpt.data

\* C5: a run whose checkpoint has every text of the input calls neither
\* generate_summary nor the service, never saves the checkpoint and leaves
\* the checkpoint file as it is; when the run before it, on the same input,
\* was such a run too and wrote the output file, the output this run builds
\* and writes has the same summaries and the same flags as that file.
C5_CompleteCheckpointIdempotent ==
    /\ [](CheckpointComplete =>
             /\ gs_calls = <<>>
             /\ svc_calls = <<>>
             /\ saves = 0
             /\ ckptFile = startCkpt
             /\ pc \in {"output", "owrite", "done"}
             /\ (pc = "done" => outFile = [st |-> "ok", doc |-> output]))
    /\ [][(/\ CheckpointComplete
           /\ pc = "output"
           /\ pc' = "owrite"
           /\ outFile.st = "ok"
           /\ outBy.nothingNew
           /\ outBy.run = runs - 1
           /\ outBy.raw = raw)
          => /\ output'.summaries = outFile.doc.summaries
             /\ output'.flags = outFile.doc.flags]_vars

\* C5 witness: the second of two successive runs on the large input with a
\* complete checkpoint is done and has written the output file.
C5_Witness ==
    /\ pc = "done"
    /\ raw = 2
    /\ CheckpointComplete
    /\ outBy.again
    /\ outBy.run = runs
    /\ T101 \in DOMAIN outFile.doc.summaries

\* C6: the persisted checkpoint only grows.  Whenever no save is under way,
\* the checkpoint file holds, unchanged, every record it held a step before
\* and every record it held when the run loaded it.
C6_CheckpointOnlyGrows ==
    [][pc' \notin {"pdump", "fdump"} =>
          /\ ckptFile.st = "ok" => Grows(ckptFile, ckptFile')
          /\ startCkpt.st = "ok" => Grows(startCkpt, ckptFile')]_vars

\* For each input, its requirements in input order, their texts trimmed.
Trimmed ==
    [d \in 1..Len(Inputs) |->
        LET flat == FlattenBadges(Inputs[d])
        IN  [i \in 1..Len(flat) |->
                [badge |-> flat[i].badge, number |-> flat[i].number,
                 text |-> Strip(flat[i].text)]]]

\* For each input, the texts that occur more than once, each with its first
\* occurrence in input order.
FirstOfDup ==
    [d \in 1..Len(Inputs) |->
        LET flat == Trimmed[d]
            occ(t) == {i \in 1..Len(flat) : flat[i].text = t}
            dups == {t \in {flat[i].text : i \in 1..Len(flat)} : Cardinality(occ(t)) >= 2}
        IN  [t \in dups |->
                flat[CHOOSE i \in occ(t) : \A j \in occ(t) : i <= j]]]

\* The texts that occur more than once in the input file.
DupTexts == DOMAIN FirstOfDup[raw]

\* The first occurrence of t in the input file.
FirstOcc(t) == FirstOfDup[raw][t]

\* The entries the loader made for t.
Entries(t) == {i \in 1..Len(unique_texts) : unique_texts[i].text = t}

\* The calls of generate_summary for t in this run.
CallsFor(t) == Cardinality({i \in 1..Len(gs_calls) : gs_calls[i] = t})

\* The one entry of t carries the badge and number of its first occurrence.
FirstProvenance(t) ==
    /\ Cardinality(Entries(t)) = 1
    /\ \A i \in Entries(t) :
          /\ unique_texts[i].badge = FirstOcc(t).badge
          /\ unique_texts[i].number = FirstOcc(t).number

\* C10 as stated: for every text that occurs several times the loader yields
\* exactly one entry, with the badge and number of the first occurrence, and
\* a run calls generate_summary exactly once for it and leaves a checkpoint
\* entry for it.
C10_Original ==
    unique_texts # <<>> =>
        \A t \in DupTexts :
            /\ FirstProvenance(t)
            /\ pc = "done" => (CallsFor(t) = 1 /\ t \in DOMAIN ckptFile.data)

\* C10 amended: for every text that occurs several times and is not skipped
\* (not empty, no NOTE marker at its start) the loader yields exactly one
\* entry, with the badge and number of the first occurrence; a run calls
\* generate_summary at most once for it, and a run that did not find it in
\* the checkpoint and is done has called it exactly once and left its entry
\* in the checkpoint file.
C10_DuplicatesOnce ==
    unique_texts # <<>> =>
        \A t \in DupTexts :
            (t # <<>> /\ ~IsNote(t)) =>
                /\ FirstProvenance(t)
                /\ CallsFor(t) <= 1
                /\ (pc = "done" /\ t \notin DOMAIN startCkpt.data) =>
                      /\ CallsFor(t) = 1
                      /\ ckptFile.st = "ok"
                      /\ t \in DOMAIN ckptFile.data

\* C10 witness: a run on the large input, where the 41-character text occurs
\* in two badges and three requirements, is done after one call for it.
C10_Witness ==
    /\ pc = "done"
    /\ raw = 2
    /\ Cardinality({i \in 1..Len(Trimmed[raw]) : Trimmed[raw][i].text = T41}) = 3
    /\ CallsFor(T41) = 1
    /\ \E i \in Entries(T41) : unique_texts[i].badge = "Cooking"

\* C11: a run started without the API credential exits with code 1 at once:
\* it is never anywhere but at its start, its one step leads to the exit (or
\* the process is interrupted first) and leaves the checkpoint file and the
\* output file as they are, and at the exit nothing was loaded from the input
\* or the checkpoint, generate_summary and the service were never called, no
\* checkpoint was saved and the flagged list is empty.
C11_NoCredentialExitsFirst ==
    /\ []((~apiKey /\ pc \in Running) => pc = "main")
    /\ [](pc = "exit1" =>
             /\ ~apiKey
             /\ unique_texts = <<>>
             /\ summaries = EmptyMap
             /\ startCkpt = NoCkpt
             /\ gs_calls = <<>>
             /\ svc_calls = <<>>
             /\ saves = 0
             /\ flagged = <<>>
             /\ output = NoDoc)
    /\ [][(~apiKey /\ pc = "main") =>
              /\ pc' \in {"exit1", "killed"}
              /\ ckptFile' = ckptFile
              /\ outFile' = outFile]_vars

\* C11 witness: a run without the credential has exited with code 1 where
\* an earlier run had left a checkpoint file and an output file.
C11_Witness ==
    /\ pc = "exit1"
    /\ ~apiKey
    /\ ckptFile.st = "ok"
    /\ ckptFile.data # EmptyMap
    /\ outFile.st = "ok"

\* The run is done and the output file is the one it wrote, with exactly the
\* keys of the in-memory checkpoint, each with the summary of its record.
OutputFromMemory ==
    /\ outBy.run = runs
    /\ outFile.st = "ok"
    /\ outFile.doc = output
    /\ DOMAIN outFile.doc.summaries = DOMAIN summaries
    /\ \A k \in DOMAIN summaries : outFile.doc.summaries[k] = summaries[k].summary

\* C12: every run that gets past startup and loading writes the output file:
\* a run ends in an uncaught exception only in loading, before any item is
\* processed, and a run that is done has written the output file with
\* exactly the keys of its in-memory checkpoint, each with the summary of its
\* record.
C12_EveryRunWritesOutput ==
    /\ pc = "aborted" => ~Called
    /\ pc = "done" => OutputFromMemory

\* The flags of the output file are the flags of the records that satisfy
\* Has, under the keys of these records.
FlagsAre(Has(_)) ==
    /\ DOMAIN outFile.doc.flags =
           {k \in DOMAIN outFile.doc.summaries : Has(summaries[k].flag)}
    /\ \A k \in DOMAIN outFile.doc.flags : outFile.doc.flags[k] = summaries[k].flag

\* C13 as stated: the flags mapping of the output file a run has written has
\* exactly the keys whose record has a non-null flag, each with that flag; a
\* record with the flag "" is among them.
C13_Original == pc = "done" => FlagsAre(Supplied)

\* C13 amended: the flags mapping of the output file a run has written has
\* exactly the keys whose record has a flag that is true in Python's sense
\* (neither missing nor null nor empty), each with that flag; a record with
\* the flag "" is not among them.
C13_FlagsAreTruthyFlags ==
    pc = "done" =>
        /\ FlagsAre(Truthy)
        /\ \A k \in DOMAIN summaries :
               summaries[k].flag = JStr(<<>>) => k \notin DOMAIN outFile.doc.flags

\* C13 witness: a run is done that stored the flag "" for the 41-character
\* text and a note for the 101-character text; the output file has the note
\* and no flag for the 41-character text.
C13_Witness ==
    /\ pc = "done"
    /\ T41 \in DOMAIN summaries
    /\ summaries[T41].flag = JStr(<<>>)
    /\ T101 \in DOMAIN summaries
    /\ summaries[T101].flag = JStr(LostNote)
    /\ DOMAIN outFile.doc.flags = {T101}

\* C14: save_checkpoint overwrites the checkpoint file atomically: when the
\* process is interrupted during a save, or has stopped in any other way, the
\* file is not left truncated or partly written, and a run that comes to
\* load_checkpoint finds a file json.load can read (or none).
C14_SaveIsAtomic ==
    /\ pc \in Stopped => ckptFile.st # "torn"
    /\ pc = "load" => ckptFile.st # "torn"

\* The run has loaded the input and its memory is there.
InputLoaded ==
    pc \in {"loop", "psave", "pdump", "fsave", "fdump", "output", "owrite", "done"}

\* The texts of the entries, in order.
TextsOf(entries) == [i \in 1..Len(entries) |-> entries[i].text]

\* The texts among texts that are not in done, in order.
NotIn(texts, done) == SelectSeq(texts, LAMBDA t : t \notin done)

\* The texts the loader yielded that are no keys of the checkpoint this run
\* loaded, in processing order.
TodoTexts == NotIn(TextsOf(unique_texts), DOMAIN startCkpt.data)

\* The texts of more than 40 characters among texts, in order.
LongOnes(texts) == SelectSeq(texts, LAMBDA t : Len(t) > 40)

\* todo begins with calls.
StartsWithCalls(todo, calls) ==
    /\ Len(calls) <= Len(todo)
    /\ calls = SubSeq(todo, 1, Len(calls))

\* C15: in a run the service is called once for each unprocessed text of more
\* than 40 characters and for no other text.  At every point of the run the
\* texts given to generate_summary so far are the first of the unprocessed
\* texts, in order, and the service calls so far are those of them that are
\* longer than 40 characters, one call each: none for a key of the loaded
\* checkpoint, none for a text of at most 40 characters, none twice, whatever
\* the outcome of a call was.  When the run is done every unprocessed text of
\* more than 40 characters has had its one call.
C15_ServiceOncePerLongText ==
    /\ svc_calls = LongOnes(gs_calls)
    /\ \A i \in 1..Len(svc_calls) :
          /\ Len(svc_calls[i]) > 40
          /\ svc_calls[i] \notin DOMAIN startCkpt.data
          /\ \A j \in 1..Len(svc_calls) : svc_calls[j] = svc_calls[i] => j = i
    /\ (InputLoaded /\ gs_calls # <<>>) => StartsWithCalls(TodoTexts, gs_calls)
    /\ pc = "done" => gs_calls = TodoTexts

\* C15 witness: a run on the large input is done that started from a
\* checkpoint with the 50 short texts; it called the service for the two long
\* texts, once each, and the second call failed.
C15_Witness ==
    /\ pc = "done"
    /\ raw = 2
    /\ startCkpt.st = "ok"
    /\ Cardinality(DOMAIN startCkpt.data) = NumFiller
    /\ svc_calls = <<T41, T101>>
    /\ LastReply = ReplyRaise

\* The batch loop of this run has processed its last item.
LoopEnded ==
    /\ pc \in {"fsave", "fdump", "output", "owrite", "done"}
    /\ to_process # <<>>
    /\ processed = Len(to_process)

\* The flagged list has one entry for each item of items, in their order,
\* with the item's badge and number and the summary and flag of its record.
FlaggedMatches(items) ==
    /\ Len(flagged) = Len(items)
    /\ \A i \in 1..Len(items) :
          /\ flagged[i].badge = items[i].badge
          /\ flagged[i].number = items[i].number
          /\ flagged[i].summary = summaries[items[i].text].summary
          /\ flagged[i].flag = summaries[items[i].text].flag

\* C16 as stated: at the end of the batch loop the flagged list holds, in
\* processing order, one entry for every item of this run whose record has a
\* non-null flag, with its badge, number, summary and flag, and no other
\* entry.
C16_Original ==
    LoopEnded =>
        FlaggedMatches(SelectSeq(to_process,
                                 LAMBDA e : Supplied(summaries[e.text].flag)))

\* C16 amended: at the end of the batch loop the flagged list holds, in
\* processing order, one entry for every item of this run whose record has a
\* flag that is true in Python's sense (not missing, not null, not empty),
\* with its badge, number, summary and flag, and no other entry; an item
\* whose record has the flag "" has no entry.
C16_FlaggedListsTruthyFlags ==
    LoopEnded =>
        /\ FlaggedMatches(SelectSeq(to_process,
                                    LAMBDA e : Truthy(summaries[e.text].flag)))
        /\ \A i \in 1..Len(flagged) : flagged[i].flag # JStr(<<>>)

\* C16 witness: the loop over the large input has ended; the record of the
\* 41-character text has the flag "" and no entry, and the one entry of the
\* list is that of the 101-character text, whose call failed.
C16_Witness ==
    /\ LoopEnded
    /\ pc = "fsave"
    /\ raw = 2
    /\ summaries[T41].flag = JStr(<<>>)
    /\ Len(flagged) = 1
    /\ flagged[1].badge = "Hiking"
    /\ flagged[1].number = "7"
    /\ flagged[1].flag = JStr(ApiErrorPrefix \o Take(ApiErrText, 50))

\* For each input, its requirement texts, trimmed, that are neither empty nor
\* begin with a NOTE marker.
KeptTexts ==
    [d \in 1..Len(Inputs) |->
        {t \in {Trimmed[d][i].text : i \in 1..Len(Trimmed[d])} :
            t # <<>> /\ ~IsNote(t)}]

\* The requirement texts of the inputs, as written and trimmed, that are
\* empty after trimming or begin, trimmed, with a NOTE marker.
SkippedTexts ==
    UNION {LET flat == FlattenBadges(Inputs[d])
               skipped == {i \in 1..Len(flat) :
                              Trimmed[d][i].text = <<>> \/ IsNote(Trimmed[d][i].text)}
           IN  {flat[i].text : i \in skipped} \cup {Trimmed[d][i].text : i \in skipped}
           : d \in 1..Len(Inputs)}

\* C17: the keys the loader yields are exactly the requirement texts of the
\* input, trimmed, that are not empty and do not begin with a NOTE marker;
\* and a skipped text is never given to generate_summary or the service and
\* is no key of the in-memory checkpoint, the checkpoint file or the output
\* file.
C17_LoaderSkipsEmptyAndNotes ==
    /\ InputLoaded => Keys(unique_texts) = KeptTexts[raw]
    /\ \A t \in SkippedTexts :
          /\ t \notin Keys(unique_texts)
          /\ t \notin Range(gs_calls)
          /\ t \notin Range(svc_calls)
          /\ t \notin DOMAIN summaries
          /\ t \notin DOMAIN ckptFile.data
          /\ t \notin DOMAIN outFile.doc.summaries
          /\ t \notin DOMAIN outFile.doc.flags

\* C17 witness: a run on the small input, which has a blank text, three NOTE
\* texts (one behind a tab) and a text with "NOTE:" in its middle, is done:
\* the keys are the three other texts, the one with "NOTE:" in its middle
\* among them, in the checkpoint file and in the output file too.
C17_Witness ==
    /\ pc = "done"
    /\ raw = 1
    /\ Keys(unique_texts) = {T40, MidNoteText, Str(4, 1)}
    /\ {NoteText, HtmlNoteText, <<>>} \subseteq SkippedTexts
    /\ DOMAIN ckptFile.data = {T40, MidNoteText, Str(4, 1)}
    /\ DOMAIN outFile.doc.summaries = {T40, MidNoteText, Str(4, 1)}

\* C18: a step of the batch loop that processes one item changes the
\* in-memory checkpoint at the key of this item only: it adds or sets the
\* record of this key, and every other record, loaded from the checkpoint
\* file or made earlier in the run, is as before, whatever the outcome of the
\* service call (steps after which the process and its memory are gone have
\* nothing to compare).
C18_ItemChangesOwnKeyOnly ==
    [][(pc = "loop" /\ pc' \notin {"aborted", "killed"}) =>
          LET key == to_process[processed + 1].text
          IN  /\ lastCall'.text = key
              /\ DOMAIN summaries' = DOMAIN summaries \cup {key}
              /\ summaries'[key] = lastCall'.result
              /\ \A k \in DOMAIN summaries \ {key} : summaries'[k] = summaries[k]]_vars

\* C18 witness: a run that loaded the 50 records of the checkpoint file and
\* made the record of the 41-character text has processed the 101-character
\* text, with prose for a reply: the 50 records and that of the 41-character
\* text are in memory, unchanged.
C18_Witness ==
    /\ pc = "fsave"
    /\ raw = 2
    /\ startCkpt.st = "ok"
    /\ Cardinality(DOMAIN startCkpt.data) = NumFiller
    /\ gs_calls = <<T41, T101>>
    /\ LastReply = ReplyProse
    /\ \A k \in DOMAIN startCkpt.data : summaries[k] = startCkpt.data[k]
    /\ summaries[T41].summary.t = "str"
    /\ DOMAIN summaries = DOMAIN startCkpt.data \cup {T41, T101}

\* C19: when a run that found at least one text unprocessed is done, every
\* text the loader yielded is a key of the checkpoint file and of the
\* summaries of the output file, the checkpoint file holds exactly the
\* in-memory mapping, and the output file is the output built from this
\* mapping.
C19_DoneRunPersistsAll ==
    (pc = "done" /\ to_process # <<>>) =>
        /\ ckptFile = save_checkpoint(summaries)
        /\ Keys(unique_texts) \subseteq DOMAIN ckptFile.data
        /\ outFile.st = "ok"
        /\ Keys(unique_texts) \subseteq DOMAIN outFile.doc.summaries
        /\ outFile.doc = BuildOutput(ckptFile.data, outFile.doc.generated)

\* C19 witness: a run on the large input that began without a checkpoint file
\* is done, after its periodic and its final save: the 52 texts are keys of
\* the checkpoint file.
C19_Witness ==
    /\ pc = "done"
    /\ raw = 2
    /\ startCkpt.st = "absent"
    /\ Len(to_process) = NumFiller + 2
    /\ saves = 2
    /\ Cardinality(DOMAIN ckptFile.data) = NumFiller + 2
    /\ {T41, T101} \subseteq DOMAIN outFile.doc.summaries

====
